---- MODULE Spec2Model ----
(***************************************************************************)
(* github-mcp: the MCP server of src/index.ts as a state machine.          *)
(*                                                                         *)
(* The process loads the module (constructor, then run), and once the      *)
(* transport is connected it serves list-tools and call-tool requests.     *)
(* A call-tool request runs its handler up to the first await of a         *)
(* collaborator (Octokit) call; the collaborator's answer, a response or   *)
(* a thrown error, resumes the handler.  Every collaborator call of the    *)
(* invocation is logged in `calls` with its parameters and its answer.     *)
(*                                                                         *)
(* JavaScript values are tagged records (JSUndefined, JSStr, JSBool,       *)
(* JSNum).  A repository name is a sequence of one-character strings, so   *)
(* that String.includes and String.split are computed, not assumed.        *)
(***************************************************************************)
EXTENDS Naturals, Sequences, FiniteSets

VARIABLES
    token,      \* process.env.GITHUB_TOKEN
    phase,      \* "loading" | "crashed" | "constructed" | "connected"
    req,        \* the request being served (or the last one served)
    pc,         \* where the invocation stands: idle, an await, or done
    entered,    \* the tool handler the invocation entered, or "none"
    calls,      \* collaborator calls of this invocation, in issue order
    outcome     \* what the invocation returned or threw

vars == <<token, phase, req, pc, entered, calls, outcome>>

----------------------------------------------------------------------------
(* Bounds *)

MaxNameLen == 3
MaxRepos == 2

(* Program constants *)

PerPage == 100
JsonIndent == 2

----------------------------------------------------------------------------
(* JavaScript values *)

JSUndefined == [t |-> "undefined"]
JSStr(s) == [t |-> "string", s |-> s]
JSBool(b) == [t |-> "boolean", b |-> b]
JSNum == [t |-> "number"]

\* !v for the values the program negates (the token, params.name,
\* params.public): undefined, the empty string and false are falsy.
Not(v) ==
    CASE v.t = "undefined" -> TRUE
      [] v.t = "string"    -> v.s = <<>>
      [] v.t = "boolean"   -> ~v.b
      [] OTHER             -> FALSE

----------------------------------------------------------------------------
(* Strings as character sequences *)

Slash == "/"
Chars == {"o", "r", Slash}

RECURSIVE StringsUpTo(_)
StringsUpTo(n) ==
    IF n = 0 THEN {<<>>}
    ELSE LET shorter == StringsUpTo(n - 1)
         IN  shorter \cup {Append(s, c) : s \in {x \in shorter : Len(x) = n - 1}, c \in Chars}

\* String.prototype.includes for a one-character needle
includes_bug(s, ch) ==
    Len(s) > 0 /\ s[1] = ch

includes(s, ch) ==
    \E i \in 1..Len(s) : s[i] = ch

\* String.prototype.split for a one-character separator: the pieces between
\* the separators, empty pieces kept.
RECURSIVE split(_, _)
split(s, ch) ==
    IF ~includes(s, ch) THEN <<s>>
    ELSE LET i == CHOOSE k \in 1..Len(s) :
                      s[k] = ch /\ \A j \in 1..(k - 1) : s[j] # ch
         IN  <<SubSeq(s, 1, i - 1)>> \o split(SubSeq(s, i + 1, Len(s)), ch)

----------------------------------------------------------------------------
(* The tool catalog and the argument schema *)

RepoActions == {"list", "create", "clone", "view", "delete", "fork"}
PRActions == {"list", "create", "view", "merge", "close", "review", "checkout"}
IssueActions == {"list", "create", "view", "close", "reopen", "comment"}

\* The list-tools answer: each tool's name, its action enum, its required
\* fields and the defaults its input schema declares.
ToolCatalog ==
    << [name |-> "gh_repo", description |-> "Manage GitHub repositories",
        actions |-> RepoActions, required |-> {"action"},
        defaults |-> [public |-> TRUE]],
       [name |-> "gh_pr", description |-> "Manage pull requests",
        actions |-> PRActions, required |-> {"action"},
        defaults |-> [state |-> "open", draft |-> FALSE]],
       [name |-> "gh_issue", description |-> "Manage GitHub issues",
        actions |-> IssueActions, required |-> {"action"},
        defaults |-> [state |-> "open"]] >>

CatalogNames == {ToolCatalog[i].name : i \in 1..Len(ToolCatalog)}

DeclaredActions(tool) ==
    LET i == CHOOSE k \in 1..Len(ToolCatalog) : ToolCatalog[k].name = tool
    IN  ToolCatalog[i].actions

\* z.string().optional(), z.boolean().optional()
OptionalOf(v, type) == v.t = "undefined" \/ v.t = type

\* GitHubActionSchema.parse(args) succeeds: args is an object, action is one
\* of the enum's strings, every other field is absent or of its type.
SchemaAccepts(args) ==
    /\ args.t = "object"
    /\ args.action.t = "string"
    /\ args.action.s \in RepoActions
    /\ OptionalOf(args.name, "string")
    /\ OptionalOf(args.description, "string")
    /\ OptionalOf(args.public, "boolean")
    /\ OptionalOf(args.clone, "boolean")
    /\ OptionalOf(args.path, "string")
    /\ OptionalOf(args.org, "string")

----------------------------------------------------------------------------
(* Errors and results *)

\* new McpError(code, message); a message is the sequence of its pieces
McpError(code, message) ==
    [class |-> "McpError", code |-> code, message |-> message]

\* what GitHubActionSchema.parse throws
ZodError == [class |-> "ZodError", message |-> <<"zod issues">>]

\* what an Octokit call throws
RequestError(msg) == [class |-> "RequestError", message |-> <<msg>>]

\* the catch block of the call-tool handler
Rethrow_bug(error) ==
    IF error.class = "McpError" THEN error
    ELSE McpError("InternalError", <<"GitHub API error">>)

Rethrow(error) ==
    IF error.class = "McpError" THEN error
    ELSE McpError("InternalError", <<"GitHub API error: ">> \o error.message)

Thrown(error) == [kind |-> "error", error |-> Rethrow(error)]

TextResult(text) ==
    [kind |-> "result", content |-> <<[type |-> "text", text |-> text]>>]

\* JSON.stringify(value, null, 2)
JSONStringify(value) == [fmt |-> "json", indent |-> JsonIndent, value |-> value]

\* a template literal or a string literal: its pieces in order
Template(parts) == [fmt |-> "plain", parts |-> parts]

----------------------------------------------------------------------------
(* The collaborator: the Octokit client and what it may answer *)

ErrorMessages == {"Not Found", "Bad credentials"}
Logins == {<<"m", "e">>, <<"o">>}
Urls == {"https://github.com/me/demo", "https://github.com/me/other"}

RepoPool ==
    { [id |-> "R1", full_name |-> "me/demo", description |-> "a demo",
       private |-> FALSE, html_url |-> "https://github.com/me/demo",
       language |-> "TypeScript", stargazers_count |-> 3, forks_count |-> 1,
       open_issues_count |-> 0, created_at |-> "2024-01-01",
       updated_at |-> "2024-02-02", topics |-> <<"mcp">>,
       default_branch |-> "main"],
      [id |-> "R2", full_name |-> "org/tool", description |-> "null",
       private |-> TRUE, html_url |-> "https://github.com/org/tool",
       language |-> "null", stargazers_count |-> 0, forks_count |-> 0,
       open_issues_count |-> 7, created_at |-> "2023-03-03",
       updated_at |-> "2023-04-04", topics |-> <<>>,
       default_branch |-> "master"] }

RECURSIVE SeqsUpTo(_, _)
SeqsUpTo(S, n) ==
    IF n = 0 THEN {<<>>}
    ELSE LET shorter == SeqsUpTo(S, n - 1)
         IN  shorter \cup {Append(q, x) : q \in {y \in shorter : Len(y) = n - 1}, x \in S}

Pending == [status |-> "pending"]
Ok(data) == [status |-> "ok", data |-> data]
Failed(msg) == [status |-> "error", message |-> msg]
Failures == {Failed(m) : m \in ErrorMessages}

\* One page of repositories; `more` says the collaborator holds further pages.
ListResponses ==
    {[status |-> "ok", data |-> d, more |-> m] :
        d \in SeqsUpTo(RepoPool, MaxRepos), m \in BOOLEAN} \cup Failures
CreateResponses == {Ok([html_url |-> u]) : u \in Urls} \cup Failures
UserResponses == {Ok([login |-> l]) : l \in Logins} \cup Failures
GetResponses == {Ok(r) : r \in RepoPool} \cup Failures

Call(api, params) == [api |-> api, params |-> params, response |-> Pending]

----------------------------------------------------------------------------
(* A step of a handler: it stops at an await, having issued a call, or it  *)
(* completes with a result or a thrown error.                               *)

Await(at, call) == [pc |-> at, issue |-> <<call>>, outcome |-> [kind |-> "none"]]
Return(result) == [pc |-> "done", issue |-> <<>>, outcome |-> result]
Throw(error) == [pc |-> "done", issue |-> <<>>, outcome |-> Thrown(error)]

----------------------------------------------------------------------------
(* handleRepoAction *)

ListParams == [sort |-> "updated", per_page |-> PerPage]

\* the object handed to repos.createForAuthenticatedUser
CreateParams_bug(params) ==
    [name |-> params.name.s, description |-> params.description,
     private |-> params.public.t = "boolean" /\ params.public.b,
     auto_init |-> TRUE]

CreateParams(params) ==
    [name |-> params.name.s, description |-> params.description,
     private |-> Not(params.public), auto_init |-> TRUE]

\* const [owner, repo] = params.name.split('/')
OwnerRepo(name) ==
    LET parts == split(name, Slash)
    IN  [owner |-> parts[1], repo |-> parts[2]]

\* the default case of handleRepoAction's switch
UnsupportedAction_bug(action) ==
    Return(TextResult(Template(<<"Repository action handler not fully implemented yet">>)))

UnsupportedAction(action) ==
    Throw(McpError("InvalidParams", <<"Unsupported action: ", action>>))

NameRequired == McpError("InvalidParams", <<"Repository name is required">>)

\* handleRepoAction up to its first await
handleRepoAction(args) ==
    IF ~SchemaAccepts(args) THEN Throw(ZodError)
    ELSE LET params == args
         IN  CASE params.action.s = "list" ->
                    Await("await_list", Call("repos.listForAuthenticatedUser", ListParams))
               [] params.action.s = "create" ->
                    IF Not(params.name) THEN Throw(NameRequired)
                    ELSE Await("await_create",
                               Call("repos.createForAuthenticatedUser", CreateParams(params)))
               [] params.action.s = "view" ->
                    IF Not(params.name) THEN Throw(NameRequired)
                    ELSE IF includes(params.name.s, Slash)
                         THEN Await("await_get", Call("repos.get", OwnerRepo(params.name.s)))
                         ELSE Await("await_user", Call("users.getAuthenticated", <<>>))
               [] OTHER -> UnsupportedAction(params.action.s)

\* the projection of one repository in the list answer
RepoSummary(repo) ==
    [name |-> repo.full_name, description |-> repo.description,
     private |-> repo.private, url |-> repo.html_url, language |-> repo.language,
     stars |-> repo.stargazers_count, updated |-> repo.updated_at]

\* the projection of the repository in the view answer
RepoDetails(data) ==
    [name |-> data.full_name, description |-> data.description,
     private |-> data.private, url |-> data.html_url, language |-> data.language,
     stars |-> data.stargazers_count, forks |-> data.forks_count,
     issues |-> data.open_issues_count, created |-> data.created_at,
     updated |-> data.updated_at, topics |-> data.topics,
     default_branch |-> data.default_branch]

\* data.map(repo => ({...}))
MapRepos(data) ==
    [i \in 1..Len(data) |-> RepoSummary(data[i])]

\* case 'list', after the await
AfterList_bug(resp) ==
    IF resp.status = "error" THEN Throw(RequestError(resp.message))
    ELSE IF resp.more
         THEN Await("await_list", Call("repos.listForAuthenticatedUser", ListParams))
         ELSE Return(TextResult(JSONStringify(MapRepos(resp.data))))

AfterList(resp) ==
    IF resp.status = "error" THEN Throw(RequestError(resp.message))
    ELSE Return(TextResult(JSONStringify(MapRepos(resp.data))))

\* case 'create', after the await
AfterCreate(resp) ==
    IF resp.status = "error" THEN Throw(RequestError(resp.message))
    ELSE Return(TextResult(Template(<<"Repository created: ", resp.data.html_url>>)))

\* case 'view', after users.getAuthenticated: the login becomes the owner
AfterUser(resp, params) ==
    IF resp.status = "error" THEN Throw(RequestError(resp.message))
    ELSE Await("await_get",
               Call("repos.get", [owner |-> resp.data.login, repo |-> params.name.s]))

\* case 'view', after repos.get
AfterGet(resp) ==
    IF resp.status = "error" THEN Throw(RequestError(resp.message))
    ELSE Return(TextResult(JSONStringify(RepoDetails(resp.data))))

----------------------------------------------------------------------------
(* handlePRAction, handleIssueAction and the call-tool switch *)

handlePRAction(args) ==
    Return(TextResult(Template(<<"PR action handler not fully implemented yet">>)))

handleIssueAction(args) ==
    Return(TextResult(Template(<<"Issue action handler not fully implemented yet">>)))

\* which handler the switch on the tool name enters
HandlerFor_bug(name) ==
    CASE name = "gh_repo"  -> "handleRepoAction"
      [] name = "gh_issue" -> "handleIssueAction"
      [] OTHER             -> "handlePRAction"

HandlerFor(name) ==
    CASE name = "gh_repo"  -> "handleRepoAction"
      [] name = "gh_pr"    -> "handlePRAction"
      [] name = "gh_issue" -> "handleIssueAction"
      [] OTHER             -> "none"

\* the call-tool handler up to its first await
Dispatch(name, args) ==
    LET h == HandlerFor(name)
    IN  CASE h = "handleRepoAction"  -> handleRepoAction(args)
          [] h = "handlePRAction"    -> handlePRAction(args)
          [] h = "handleIssueAction" -> handleIssueAction(args)
          [] OTHER -> Throw(McpError("MethodNotFound", <<"Unknown tool: ", name>>))

----------------------------------------------------------------------------
(* Inputs *)

TokenInputs == {JSUndefined, JSStr(<<>>), JSStr(<<"t", "o", "k">>)}

ToolNameInputs == CatalogNames \cup {"nonexistent_tool", "GH_REPO"}

ActionInputs ==
    {JSUndefined, JSNum}
        \cup {JSStr(a) : a \in RepoActions \cup PRActions \cup IssueActions \cup {"bogus"}}

NameInputs ==
    {JSUndefined, JSNum} \cup {JSStr(n) : n \in StringsUpTo(MaxNameLen)}

PublicInputs == {JSUndefined, JSBool(TRUE), JSBool(FALSE), JSStr(<<"y", "e", "s">>)}

\* the fields no handler reads: all absent, all well-typed, or one ill-typed
AllAbsent ==
    [description |-> JSUndefined, clone |-> JSUndefined,
     path |-> JSUndefined, org |-> JSUndefined]
AllPresent ==
    [description |-> JSStr(<<"d">>), clone |-> JSBool(TRUE),
     path |-> JSStr(<<"p">>), org |-> JSStr(<<"g">>)]
OtherFieldInputs ==
    {AllAbsent, AllPresent,
     [AllAbsent EXCEPT !.description = JSNum],
     [AllPresent EXCEPT !.clone = JSStr(<<"n", "o">>)],
     [AllAbsent EXCEPT !.path = JSNum],
     [AllPresent EXCEPT !.org = JSBool(FALSE)]}

ArgObject(action, name, public, other) ==
    [t |-> "object", action |-> action, name |-> name, public |-> public,
     description |-> other.description, clone |-> other.clone,
     path |-> other.path, org |-> other.org]

\* request.params.arguments: absent, or an object
RepoArgInputs ==
    {JSUndefined}
        \cup {ArgObject(a, n, p, o) : a \in ActionInputs, n \in NameInputs,
                                      p \in PublicInputs, o \in OtherFieldInputs}

\* the other tools' handlers read no argument
OtherArgInputs ==
    {JSUndefined}
        \cup {ArgObject(a, n, JSUndefined, AllAbsent) :
                a \in ActionInputs, n \in {JSUndefined, JSStr(<<"o", Slash, "r">>)}}

ArgInputs(name) == IF name = "gh_repo" THEN RepoArgInputs ELSE OtherArgInputs

----------------------------------------------------------------------------
(* The process *)

Init ==
    /\ token \in TokenInputs
    /\ phase = "loading"
    /\ req = [kind |-> "none"]
    /\ pc = "idle"
    /\ entered = "none"
    /\ calls = <<>>
    /\ outcome = [kind |-> "none"]

\* the constructor's check of the token
TokenMissing_bug(tok) == FALSE

TokenMissing(tok) == Not(tok)

\* new GitHubMCPServer(): throws without a token, else registers the handlers
Construct ==
    /\ phase = "loading"
    /\ phase' = IF TokenMissing(token) THEN "crashed" ELSE "constructed"
    /\ UNCHANGED <<token, req, pc, entered, calls, outcome>>

\* server.run(): connects the transport
Run ==
    /\ phase = "constructed"
    /\ phase' = "connected"
    /\ UNCHANGED <<token, req, pc, entered, calls, outcome>>

\* the server takes the next request once the last one is answered
Ready == phase = "connected" /\ pc = "idle"

\* the list-tools handler
ListTools ==
    /\ Ready
    /\ req' = [kind |-> "list_tools"]
    /\ pc' = "done"
    /\ entered' = "none"
    /\ calls' = <<>>
    /\ outcome' = [kind |-> "tools", tools |-> ToolCatalog]
    /\ UNCHANGED <<token, phase>>

\* the call-tool handler, to its first await or to its end
CallTool(name, args) ==
    /\ LET step == Dispatch(name, args)
       IN  /\ req' = [kind |-> "call_tool", name |-> name, args |-> args]
           /\ pc' = step.pc
           /\ entered' = HandlerFor(name)
           /\ calls' = step.issue
           /\ outcome' = step.outcome
    /\ UNCHANGED <<token, phase>>

\* a call-tool request arrives: any tool name, any arguments
CallToolRequest ==
    /\ Ready
    /\ \E name \in ToolNameInputs : \E args \in ArgInputs(name) : CallTool(name, args)

\* the awaited call is answered and the handler goes on from there
Resume(resp, step) ==
    /\ calls' = [calls EXCEPT ![Len(calls)].response = resp] \o step.issue
    /\ pc' = step.pc
    /\ outcome' = step.outcome
    /\ UNCHANGED <<token, phase, req, entered>>

ListReturns ==
    /\ pc = "await_list"
    /\ \E resp \in ListResponses : Resume(resp, AfterList(resp))

CreateReturns ==
    /\ pc = "await_create"
    /\ \E resp \in CreateResponses : Resume(resp, AfterCreate(resp))

UserReturns ==
    /\ pc = "await_user"
    /\ \E resp \in UserResponses : Resume(resp, AfterUser(resp, req.args))

GetReturns ==
    /\ pc = "await_get"
    /\ \E resp \in GetResponses : Resume(resp, AfterGet(resp))

\* the handler's result or error goes back to the host; nothing of the
\* invocation is kept
Respond ==
    /\ pc = "done"
    /\ pc' = "idle"
    /\ req' = [kind |-> "none"]
    /\ entered' = "none"
    /\ calls' = <<>>
    /\ outcome' = [kind |-> "none"]
    /\ UNCHANGED <<token, phase>>

Next ==
    \/ Construct
    \/ Run
    \/ ListTools
    \/ CallToolRequest
    \/ ListReturns
    \/ CreateReturns
    \/ UserReturns
    \/ GetReturns
    \/ Respond

Spec == Init /\ [][Next]_vars

----------------------------------------------------------------------------
(* Vocabulary of the properties.  These read the request, the call log and *)
(* the outcome; none of them uses an operator of the handlers.             *)

IsCall == req.kind = "call_tool"
HasArgs == IsCall /\ req.args.t = "object"
Finished == pc = "done"
FailedWith(code) == outcome.kind = "error" /\ outcome.error.code = code
Succeeded == outcome.kind = "result"

\* a gh_repo call whose action argument is the string a
RepoCall(a) ==
    /\ HasArgs
    /\ req.name = "gh_repo"
    /\ req.args.action.t = "string"
    /\ req.args.action.s = a

IsType(v, type) == v.t \in {"undefined", type}

\* every optional field of the arguments is absent or of its declared type
WellTyped(args) ==
    /\ IsType(args.name, "string")
    /\ IsType(args.description, "string")
    /\ IsType(args.public, "boolean")
    /\ IsType(args.clone, "boolean")
    /\ IsType(args.path, "string")
    /\ IsType(args.org, "string")

NonEmptyName(args) == args.name.t = "string" /\ Len(args.name.s) > 0

HasSlash(n) == \E i \in 1..Len(n) : n[i] = "/"
SlashCount(n) == Cardinality({i \in 1..Len(n) : n[i] = "/"})

Contains(pieces, piece) == \E i \in 1..Len(pieces) : pieces[i] = piece

\* the outcome is one text block
OneTextBlock ==
    /\ Succeeded
    /\ Len(outcome.content) = 1
    /\ outcome.content[1].type = "text"

PlaceholderOf(tool) ==
    IF tool = "gh_pr" THEN <<"PR action handler not fully implemented yet">>
    ELSE <<"Issue action handler not fully implemented yet">>

\* the outcome is a fixed placeholder text
IsPlaceholder ==
    /\ OneTextBlock
    /\ outcome.content[1].text.fmt = "plain"
    /\ Len(outcome.content[1].text.parts) = 1

----------------------------------------------------------------------------
(* C1 *)

----------------------------------------------------------------------------
(* C2, C3 *)

DeclaredFor(tool) ==
    CASE tool = "gh_repo"  -> {"list", "create", "clone", "view", "delete", "fork"}
      [] tool = "gh_pr"    -> {"list", "create", "view", "merge", "close", "review", "checkout"}
      [] tool = "gh_issue" -> {"list", "create", "view", "close", "reopen", "comment"}
      [] OTHER             -> {}

\* the action argument is missing or is none of the tool's declared values
ActionRejectable ==
    /\ HasArgs
    /\ req.name \in {"gh_repo", "gh_pr", "gh_issue"}
    /\ \/ req.args.action.t # "string"
       \/ req.args.action.s \notin DeclaredFor(req.name)

\* C2: for every tool of the catalog, a call whose action is missing or is
\* not one of the tool's declared values is rejected with InvalidParams and
\* issues no collaborator call.
C2_BadActionIsInvalidParams ==
    ActionRejectable =>
        /\ Finished
        /\ FailedWith("InvalidParams")
        /\ calls = <<>>

\* C2 for gh_repo alone: the schema's rejection surfaces as InvalidParams.
C2_RepoBadActionIsInvalidParams ==
    (ActionRejectable /\ req.name = "gh_repo") => FailedWith("InvalidParams")

\* C2 for the tools without a schema: a bad action is not a success.
C2_StubBadActionIsNotSuccess ==
    (ActionRejectable /\ req.name # "gh_repo") => ~Succeeded

\* C3: gh_repo create without a name fails with InvalidParams and issues no
\* collaborator call, whatever the other arguments are.
C3_CreateWithoutNameIsInvalidParams ==
    (RepoCall("create") /\ req.args.name.t = "undefined") =>
        /\ Finished
        /\ FailedWith("InvalidParams")
        /\ calls = <<>>

----------------------------------------------------------------------------
(* C4, C5 *)

CreateCallIssued ==
    /\ Len(calls) = 1
    /\ calls[1].api = "repos.createForAuthenticatedUser"

\* the one create call carries private = NOT p and auto_init = true, and a
\* success returns one text holding the URL of the collaborator's answer
CreateAsClaimed ==
    /\ CreateCallIssued
    /\ calls[1].params.private = ~req.args.public.b
    /\ calls[1].params.auto_init = TRUE
    /\ calls[1].params.name = req.args.name.s
    /\ (Finished /\ calls[1].response.status = "ok") =>
            /\ OneTextBlock
            /\ outcome.content[1].text.fmt = "plain"
            /\ Contains(outcome.content[1].text.parts, calls[1].response.data.html_url)

\* C4 as stated: gh_repo create with a present name and a boolean public = p
\* issues exactly one create call with private = NOT p and auto_init = true,
\* and on success returns text containing the URL of the response.
C4_CreateWithPresentName ==
    (RepoCall("create") /\ WellTyped(req.args)
        /\ req.args.name.t = "string" /\ req.args.public.t = "boolean") =>
        CreateAsClaimed

\* C4 amended: the same with a non-empty name (the empty string is rejected
\* like an absent name) and arguments that pass the schema.
C4_CreateWithNonEmptyName ==
    (RepoCall("create") /\ WellTyped(req.args)
        /\ NonEmptyName(req.args) /\ req.args.public.t = "boolean") =>
        CreateAsClaimed

C4_Witness ==
    /\ RepoCall("create")
    /\ NonEmptyName(req.args)
    /\ req.args.public.t = "boolean"
    /\ req.args.public.b = FALSE
    /\ Finished
    /\ Succeeded
    /\ CreateCallIssued
    /\ calls[1].params.private = TRUE

\* C5: gh_repo create with a name and no public argument issues its create
\* call with private = false, the flag of a call with public: true.
C5_PublicDefaultsToTrue ==
    (RepoCall("create") /\ WellTyped(req.args)
        /\ NonEmptyName(req.args) /\ req.args.public.t = "undefined") =>
        /\ CreateCallIssued
        /\ calls[1].params.private = FALSE

----------------------------------------------------------------------------
(* C6 *)

Lookups == {i \in 1..Len(calls) : calls[i].api = "users.getAuthenticated"}

\* owner and repo are the two sides of the (first) separator of n
SidesOf(n, owner, repo) ==
    /\ ~HasSlash(owner)
    /\ ~HasSlash(repo)
    /\ Len(owner) + 1 + Len(repo) <= Len(n)
    /\ SubSeq(n, 1, Len(owner) + 1 + Len(repo)) = owner \o <<"/">> \o repo
    /\ SlashCount(n) = 1 => owner \o <<"/">> \o repo = n

\* C6: a successful gh_repo view looks the identity up if and only if the
\* name holds no '/'.  Without one it issues exactly two calls, the identity
\* lookup and then a repository-get whose owner is the login the lookup
\* returned and whose repo is the name; with one it issues exactly one call,
\* the repository-get of the owner and repo on the two sides of the '/'.
C6_ViewLooksUpIdentityIffNoOwner ==
    (RepoCall("view") /\ Finished /\ Succeeded) =>
        LET n == req.args.name.s
        IN  /\ (Lookups # {}) <=> ~HasSlash(n)
            /\ ~HasSlash(n) =>
                    /\ Len(calls) = 2
                    /\ calls[1].api = "users.getAuthenticated"
                    /\ calls[1].response.status = "ok"
                    /\ calls[2].api = "repos.get"
                    /\ calls[2].params.owner = calls[1].response.data.login
                    /\ calls[2].params.repo = n
            /\ HasSlash(n) =>
                    /\ Len(calls) = 1
                    /\ calls[1].api = "repos.get"
                    /\ SidesOf(n, calls[1].params.owner, calls[1].params.repo)

C6_Witness ==
    /\ RepoCall("view")
    /\ Finished
    /\ Succeeded
    /\ req.args.name.s = <<"r">>
    /\ Len(calls) = 2
    /\ calls[2].params = [owner |-> <<"m", "e">>, repo |-> <<"r">>]

\* the other case of C6: an owner-qualified name, one call
C6_WitnessQualified ==
    /\ RepoCall("view")
    /\ Finished
    /\ Succeeded
    /\ req.args.name.s = <<"o", "/", "r">>
    /\ Len(calls) = 1
    /\ calls[1].params = [owner |-> <<"o">>, repo |-> <<"r">>]

----------------------------------------------------------------------------
(* C7 *)

\* C7: when a collaborator call of an invocation fails, it is the last call
\* of the invocation (no retry, no further call), and the invocation fails
\* with InternalError whose message contains the failure's message.
C7_CollaboratorFailureIsInternalError ==
    \A i \in 1..Len(calls) :
        calls[i].response.status = "error" =>
            /\ i = Len(calls)
            /\ Finished
            /\ FailedWith("InternalError")
            /\ Contains(outcome.error.message, calls[i].response.message)

C7_Witness ==
    /\ RepoCall("view")
    /\ Len(calls) = 1
    /\ calls[1].api = "users.getAuthenticated"
    /\ calls[1].response.status = "error"
    /\ calls[1].response.message = "Bad credentials"
    /\ FailedWith("InternalError")

----------------------------------------------------------------------------
(* C8 *)

\* a declared action of the tool that no code implements
Unimplemented ==
    /\ HasArgs
    /\ req.args.action.t = "string"
    /\ \/ req.name = "gh_repo" /\ req.args.action.s \in {"clone", "delete", "fork"}
       \/ req.name \in {"gh_pr", "gh_issue"} /\ req.args.action.s \in DeclaredFor(req.name)

C8_WitnessStub ==
    /\ Unimplemented
    /\ req.name = "gh_pr"
    /\ req.args.action.s = "merge"
    /\ Finished
    /\ IsPlaceholder

----------------------------------------------------------------------------
(* C9 *)

C9_CrashIsFinal ==
    [][phase = "crashed" => UNCHANGED vars]_vars

----------------------------------------------------------------------------
(* C10 *)

\* C10: a gh_repo list call issues exactly one collaborator call, the list
\* of the authenticated identity's repositories sorted by updated with page
\* size 100, however many repositories the answer holds and whether or not
\* further pages exist; on success it returns exactly one text block with
\* one entry per repository of that answer.
C10_ListIsOneCallOnePage ==
    (RepoCall("list") /\ WellTyped(req.args)) =>
        /\ Len(calls) = 1
        /\ calls[1].api = "repos.listForAuthenticatedUser"
        /\ calls[1].params = [sort |-> "updated", per_page |-> 100]
        /\ (Finished /\ calls[1].response.status = "ok") =>
                LET data == calls[1].response.data
                    text == outcome.content[1].text
                IN  /\ OneTextBlock
                    /\ text.fmt = "json"
                    /\ Len(text.value) = Len(data)
                    /\ \A i \in 1..Len(data) :
                            /\ text.value[i].name = data[i].full_name
                            /\ text.value[i].url = data[i].html_url

C10_Witness ==
    /\ RepoCall("list")
    /\ Finished
    /\ Succeeded
    /\ Len(calls) = 1
    /\ calls[1].response.more
    /\ Len(calls[1].response.data) = MaxRepos
    /\ Len(outcome.content[1].text.value) = MaxRepos

====
